---- MODULE Spec2Model ----
(***************************************************************************)
(* The stack layouter of src/layout/stack.rs as a state machine.           *)
(*                                                                         *)
(* The layouter is one record `lay` (ctx, layouts, space, sub).  Every     *)
(* public method is an operator from a layouter record to a layouter       *)
(* record, translated statement by statement, and an action that applies   *)
(* it to an input drawn from a small set.  `prev` is the layouter before   *)
(* the last call, `op` the last call and `res` what it returned; `prev2`   *)
(* and `prevOp` are the same for the call before it, so that claims        *)
(* relating the states around one or two calls are state predicates.       *)
(*                                                                         *)
(* Sizes are integers (the source uses a float based Size); `line / 2` of  *)
(* the center alignment is integer division.                               *)
(***************************************************************************)
EXTENDS Integers, Sequences, FiniteSets, TLC

VARIABLES lay, prev, op, res, prev2, prevOp, calls, done

vars == <<lay, prev, op, res, prev2, prevOp, calls, done>>

\* The number of calls made on one layouter in a run.
MaxCalls == 3

----------------------------------------------------------------------------
(* Geometry primitives the layouter calls into (src/size.rs, src/layout/   *)
(* mod.rs: not part of the given source, modelled from the specification). *)

Size2D(x, y) == [x |-> x, y |-> y]

Zero2D == Size2D(0, 0)

with_y(y) == Size2D(0, y)

Plus(a, b) == Size2D(a.x + b.x, a.y + b.y)

Minus(a, b) == Size2D(a.x - b.x, a.y - b.y)

max(a, b) == IF a > b THEN a ELSE b

min(a, b) == IF a < b THEN a ELSE b

\* Size2D::max_eq: the component-wise maximum.
max_eq(a, b) == Size2D(max(a.x, b.x), max(a.y, b.y))

\* Size2D::fits: whether `other` fits into `this`.
fits(this, other) == this.x >= other.x /\ this.y >= other.y

SizeBox(l, t, r, b) == [left |-> l, top |-> t, right |-> r, bottom |-> b]

ZeroBox == SizeBox(0, 0, 0, 0)

\* Size2D::padded / Size2D::unpadded.
padded(s, p) == Size2D(s.x + p.left + p.right, s.y + p.top + p.bottom)

unpadded(s, p) == Size2D(s.x - p.left - p.right, s.y - p.top - p.bottom)

LayoutSpace(d, p) == [dimensions |-> d, padding |-> p]

\* LayoutSpace::start: the offset from the origin to the start of content.
start(s) == Size2D(s.padding.left, s.padding.top)

\* LayoutSpace::usable: the dimensions minus the padding.
usable(s) == unpadded(s.dimensions, s.padding)

\* LayoutSpace::usable_space.
usable_space(s) == LayoutSpace(usable(s), ZeroBox)

\* One axis descriptor: direction, alignment policy and expansion flag.
AlignedAxis(a, al, e) == [axis |-> a, alignment |-> al, expand |-> e]

is_positive(a) == a \in {"LeftToRight", "TopToBottom"}

is_horizontal(a) == a \in {"LeftToRight", "RightToLeft"}

factor(a) == IF is_positive(a) THEN 1 ELSE -1

needs_expansion(ax) == ax.expand

\* AlignedAxis::anchor: the position of the alignment anchor on a line.
axis_anchor(ax, line) ==
    IF ax.alignment = "Center" THEN line \div 2
    ELSE IF is_positive(ax.axis) = (ax.alignment = "Origin") THEN 0
    ELSE line

LayoutAxes(p, s) == [primary |-> p, secondary |-> s]

\* LayoutAxes::generalize: x becomes the primary, y the secondary coordinate.
generalize(axes, s) ==
    IF is_horizontal(axes.primary.axis) THEN s ELSE Size2D(s.y, s.x)

\* LayoutAxes::specialize: the inverse of generalize.
specialize(axes, s) ==
    IF is_horizontal(axes.primary.axis) THEN s ELSE Size2D(s.y, s.x)

\* LayoutAxes::anchor.
anchor(axes, s) ==
    Size2D(axis_anchor(axes.primary, s.x), axis_anchor(axes.secondary, s.y))

\* LayoutActionList::add_layout: one placement instruction per box.
add_layout(actions, pos, layout) ==
    Append(actions, [pos |-> pos, layout |-> layout])

----------------------------------------------------------------------------
(* LastSpacing.                                                            *)

Forbidden == [kind |-> "Forbidden", amount |-> 0]

Allowed == [kind |-> "Allowed", amount |-> 0]

Soft(s) == [kind |-> "Soft", amount |-> s]

soft_or_zero(sp) == IF sp.kind = "Soft" THEN sp.amount ELSE 0

----------------------------------------------------------------------------
(* Space::new, Subspace::new, StackLayouter::new.                          *)

SpaceNew(index, hard) ==
    [index |-> index, hard |-> hard, actions |-> <<>>,
     combined_dimensions |-> Zero2D]

\* Subspace::new that starts in the Spacing State Allowed.
SubspaceNew_Allowed(origin, usbl, axes) ==
    [origin |-> origin,
     anchor |-> anchor(axes, usbl),
     factor |-> factor(axes.secondary.axis),
     boxes |-> <<>>,
     usable |-> generalize(axes, usbl),
     dimensions |-> Zero2D,
     space |-> Allowed]

SubspaceNew(origin, usbl, axes) ==
    [origin |-> origin,
     anchor |-> anchor(axes, usbl),
     factor |-> factor(axes.secondary.axis),
     boxes |-> <<>>,
     usable |-> generalize(axes, usbl),
     dimensions |-> Zero2D,
     space |-> Forbidden]

\* ctx.spaces[i] for the 0-based index i of the source.
SpaceAt(l, i) == l.ctx.spaces[i + 1]

\* StackLayouter::new with a first Space that is not hard.
StackLayouterNew_Soft(ctx) ==
    [ctx |-> ctx,
     layouts |-> <<>>,
     space |-> SpaceNew(0, FALSE),
     sub |-> SubspaceNew(start(ctx.spaces[1]), usable(ctx.spaces[1]), ctx.axes)]

StackLayouterNew(ctx) ==
    [ctx |-> ctx,
     layouts |-> <<>>,
     space |-> SpaceNew(0, TRUE),
     sub |-> SubspaceNew(start(ctx.spaces[1]), usable(ctx.spaces[1]), ctx.axes)]

----------------------------------------------------------------------------
(* The private helpers and the queries.                                    *)

\* space_is_empty without its third conjunct: the boxes and spacing of the
\* current Subspace are not looked at.
space_is_empty_NoSub(l) ==
    /\ l.space.combined_dimensions = Zero2D
    /\ l.space.actions = <<>>

space_is_empty(l) ==
    /\ l.space.combined_dimensions = Zero2D
    /\ l.space.actions = <<>>
    /\ l.sub.dimensions = Zero2D

space_is_last(l) == l.space.index = Len(l.ctx.spaces) - 1

next_space(l) == min(l.space.index + 1, Len(l.ctx.spaces) - 1)

\* The absolute position finish_subspace gives the box (offset, anchor, _).
BoxPos(l, b) ==
    LET axes == l.ctx.axes
        f == factor(axes.secondary.axis)
        a == Minus(anchor(axes, l.sub.usable),
                   anchor(axes, with_y(l.sub.dimensions.y)))
    IN  Plus(l.sub.origin,
             specialize(axes, Plus(a, Size2D(-b.anchor, f * b.offset))))

RECURSIVE DrainBoxes(_, _, _)
DrainBoxes(l, boxes, actions) ==
    IF boxes = <<>> THEN actions
    ELSE DrainBoxes(l, Tail(boxes),
                    add_layout(actions, BoxPos(l, Head(boxes)), Head(boxes).layout))

finish_subspace(l) ==
    LET axes == l.ctx.axes
        acts == DrainBoxes(l, l.sub.boxes, l.space.actions)
        dx == IF needs_expansion(axes.primary)
              THEN l.sub.usable.x ELSE l.sub.dimensions.x
        dy == IF needs_expansion(axes.secondary)
              THEN l.sub.usable.y ELSE l.sub.dimensions.y
        space == SpaceAt(l, l.space.index)
        dimensions == specialize(axes, Size2D(dx, dy))
        comb == max_eq(l.space.combined_dimensions,
                       Plus(Minus(l.sub.origin, start(space)), dimensions))
    IN  [l EXCEPT !.space.actions = acts,
                  !.space.combined_dimensions = comb,
                  !.sub.boxes = <<>>,
                  !.sub.dimensions = Size2D(dx, dy)]

\* remaining_subspace without the subtraction of the used extent.
remaining_subspace_Full(l) ==
    LET axes == l.ctx.axes
        new_origin ==
            Plus(l.sub.origin,
                 IF is_positive(axes.secondary.axis)
                 THEN specialize(axes, with_y(l.sub.dimensions.y))
                 ELSE Zero2D)
        new_usable ==
            specialize(axes,
                Size2D(l.sub.usable.x,
                       l.sub.usable.y - soft_or_zero(l.sub.space)))
    IN  <<new_origin, new_usable>>

\* The (origin, usable) pair of what is left of the current subspace.
remaining_subspace(l) ==
    LET axes == l.ctx.axes
        new_origin ==
            Plus(l.sub.origin,
                 IF is_positive(axes.secondary.axis)
                 THEN specialize(axes, with_y(l.sub.dimensions.y))
                 ELSE Zero2D)
        new_usable ==
            specialize(axes,
                Size2D(l.sub.usable.x,
                       l.sub.usable.y - l.sub.dimensions.y
                           - soft_or_zero(l.sub.space)))
    IN  <<new_origin, new_usable>>

start_space(l, space, hard) ==
    LET sp == l.ctx.spaces[space + 1]
    IN  [l EXCEPT !.space = SpaceNew(space, hard),
                  !.sub = SubspaceNew(start(sp), usable(sp), l.ctx.axes)]

\* finish_space that does not start the next Space.
finish_space_NoRestart(l, hard) ==
    LET l1 == finish_subspace(l)
        space == SpaceAt(l1, l1.space.index)
        layout ==
            [dimensions |-> IF l1.ctx.expand THEN space.dimensions
                            ELSE padded(l1.space.combined_dimensions, space.padding),
             actions |-> l1.space.actions,
             debug_render |-> TRUE,
             g_combined |-> l1.space.combined_dimensions,
             g_space |-> space,
             g_hard |-> l.space.hard,
             g_empty |-> space_is_empty(l)]
    IN  [l1 EXCEPT !.layouts = Append(l1.layouts, layout),
                   !.space.hard = hard]

\* An emitted layout.  The fields g_* are history of the Space it was made
\* of: its combined used extent, its Available Area, its hard flag and
\* whether space_is_empty() held when finish_space was entered.
finish_space(l, hard) ==
    LET l1 == finish_subspace(l)
        space == SpaceAt(l1, l1.space.index)
        layout ==
            [dimensions |-> IF l1.ctx.expand THEN space.dimensions
                            ELSE padded(l1.space.combined_dimensions, space.padding),
             actions |-> l1.space.actions,
             debug_render |-> TRUE,
             g_combined |-> l1.space.combined_dimensions,
             g_space |-> space,
             g_hard |-> l.space.hard,
             g_empty |-> space_is_empty(l)]
        l2 == [l1 EXCEPT !.layouts = Append(l1.layouts, layout)]
    IN  start_space(l2, next_space(l2), hard)

----------------------------------------------------------------------------
(* The public methods.                                                     *)

\* add_space whose soft spacing is consumed at once, like hard spacing.
add_space_SoftConsumes(l, space, kind) ==
    LET y == IF l.sub.dimensions.y + space > l.sub.usable.y
             THEN l.sub.usable.y
             ELSE l.sub.dimensions.y + space
        l1 == [l EXCEPT !.sub.dimensions.y = y]
    IN  IF kind = "Hard"
        THEN [l1 EXCEPT !.sub.space = Forbidden]
        ELSE IF l.sub.space # Forbidden
        THEN [l1 EXCEPT !.sub.space = Soft(space)]
        ELSE l

\* add_space without the clamp of hard spacing to the usable extent.
add_space_Unclamped(l, space, kind) ==
    IF kind = "Soft"
    THEN IF l.sub.space # Forbidden
         THEN [l EXCEPT !.sub.space = Soft(space)]
         ELSE l
    ELSE [l EXCEPT !.sub.dimensions.y = l.sub.dimensions.y + space,
                   !.sub.space = Forbidden]

\* add_space whose soft spacing adds to the pending soft spacing.
add_space_SoftAdds(l, space, kind) ==
    IF kind = "Soft"
    THEN IF l.sub.space # Forbidden
         THEN [l EXCEPT !.sub.space = Soft(soft_or_zero(l.sub.space) + space)]
         ELSE l
    ELSE LET y == IF l.sub.dimensions.y + space > l.sub.usable.y
                  THEN l.sub.usable.y
                  ELSE l.sub.dimensions.y + space
         IN  [l EXCEPT !.sub.dimensions.y = y, !.sub.space = Forbidden]

add_space(l, space, kind) ==
    IF kind = "Soft"
    THEN IF l.sub.space # Forbidden
         THEN [l EXCEPT !.sub.space = Soft(space)]
         ELSE l
    ELSE LET y == IF l.sub.dimensions.y + space > l.sub.usable.y
                  THEN l.sub.usable.y
                  ELSE l.sub.dimensions.y + space
             l1 == [l EXCEPT !.sub.dimensions.y = y]
         IN  IF kind = "Hard"
             THEN [l1 EXCEPT !.sub.space = Forbidden]
             ELSE l1

\* How many times the loop of add may run before the model calls it
\* diverged: it can finalize each area once and the clamped last one again.
LoopCap(l) == Len(l.ctx.spaces) + 2

\* The loop of add without its error exit.
RECURSIVE AddLoop_NoError(_, _, _, _)
AddLoop_NoError(l, size, new_dimensions, k) ==
    IF fits(l.sub.usable, new_dimensions)
    THEN [lay |-> l, new_dimensions |-> new_dimensions, exit |-> "fits", iters |-> k]
    ELSE IF k >= LoopCap(l)
    THEN [lay |-> l, new_dimensions |-> new_dimensions, exit |-> "diverged", iters |-> k]
    ELSE AddLoop_NoError(finish_space(l, TRUE), size, size, k + 1)

\* The loop of add without `new_dimensions = size`: the retry keeps the
\* extent computed for the Subspace that overflowed.
RECURSIVE AddLoop_KeepDims(_, _, _, _)
AddLoop_KeepDims(l, size, new_dimensions, k) ==
    IF fits(l.sub.usable, new_dimensions)
    THEN [lay |-> l, new_dimensions |-> new_dimensions, exit |-> "fits", iters |-> k]
    ELSE IF space_is_last(l) /\ space_is_empty(l)
    THEN [lay |-> l, new_dimensions |-> new_dimensions, exit |-> "error", iters |-> k]
    ELSE IF k >= LoopCap(l)
    THEN [lay |-> l, new_dimensions |-> new_dimensions, exit |-> "diverged", iters |-> k]
    ELSE AddLoop_KeepDims(finish_space(l, TRUE), size, new_dimensions, k + 1)

\* The `while !self.sub.usable.fits(new_dimensions)` loop of add; `k` counts
\* the Spaces it finalized.
RECURSIVE AddLoop(_, _, _, _)
AddLoop(l, size, new_dimensions, k) ==
    IF fits(l.sub.usable, new_dimensions)
    THEN [lay |-> l, new_dimensions |-> new_dimensions, exit |-> "fits", iters |-> k]
    ELSE IF space_is_last(l) /\ space_is_empty(l)
    THEN [lay |-> l, new_dimensions |-> new_dimensions, exit |-> "error", iters |-> k]
    ELSE IF k >= LoopCap(l)
    THEN [lay |-> l, new_dimensions |-> new_dimensions, exit |-> "diverged", iters |-> k]
    ELSE AddLoop(finish_space(l, TRUE), size, size, k + 1)

\* add without the materialization of pending soft spacing.
add_DropsSoft(l, layout) ==
    LET size == generalize(l.ctx.axes, layout.dimensions)
        new_dimensions == Size2D(max(l.sub.dimensions.x, size.x),
                                 l.sub.dimensions.y + size.y)
        w == AddLoop(l, size, new_dimensions, 0)
        l2 == w.lay
        box == [offset |-> l2.sub.dimensions.y,
                anchor |-> axis_anchor(l2.ctx.axes.primary, size.x),
                layout |-> layout]
    IN  IF w.exit = "fits"
        THEN [lay |-> [l2 EXCEPT !.sub.boxes = Append(l2.sub.boxes, box),
                                 !.sub.dimensions = w.new_dimensions,
                                 !.sub.space = Allowed],
              res |-> "Ok", iters |-> w.iters]
        ELSE [lay |-> l2,
              res |-> IF w.exit = "error" THEN "Err" ELSE "Diverged",
              iters |-> w.iters]

\* add returns the layouter it leaves behind, Ok or Err, and (history) the
\* number of Spaces it finalized.
add(l, layout) ==
    LET l1 == IF l.sub.space.kind = "Soft"
              THEN add_space(l, l.sub.space.amount, "Hard")
              ELSE l
        size == generalize(l1.ctx.axes, layout.dimensions)
        new_dimensions == Size2D(max(l1.sub.dimensions.x, size.x),
                                 l1.sub.dimensions.y + size.y)
        w == AddLoop(l1, size, new_dimensions, 0)
        l2 == w.lay
        offset == l2.sub.dimensions.y
        anch == axis_anchor(l2.ctx.axes.primary, size.x)
        box == [offset |-> offset, anchor |-> anch, layout |-> layout]
    IN  IF w.exit = "fits"
        THEN [lay |-> [l2 EXCEPT !.sub.boxes = Append(l2.sub.boxes, box),
                                 !.sub.dimensions = w.new_dimensions,
                                 !.sub.space = Allowed],
              res |-> "Ok", iters |-> w.iters]
        ELSE [lay |-> l2,
              res |-> IF w.exit = "error" THEN "Err" ELSE "Diverged",
              iters |-> w.iters]

\* set_axes that starts the new Subspace on the whole area of the Space.
set_axes_WholeArea(l, axes) ==
    IF axes # l.ctx.axes
    THEN LET l1 == finish_subspace(l)
             sp == SpaceAt(l1, l1.space.index)
         IN  [l1 EXCEPT !.ctx.axes = axes,
                        !.sub = SubspaceNew(start(sp), usable(sp), axes)]
    ELSE l

set_axes(l, axes) ==
    IF axes # l.ctx.axes
    THEN LET l1 == finish_subspace(l)
             r == remaining_subspace(l1)
         IN  [l1 EXCEPT !.ctx.axes = axes,
                        !.sub = SubspaceNew(r[1], r[2], axes)]
    ELSE l

\* set_spaces whose splice drops the consumed areas as well.
set_spaces_DropsConsumed(l, spaces, replace_empty) ==
    IF replace_empty /\ space_is_empty(l)
    THEN start_space([l EXCEPT !.ctx.spaces = spaces], 0, l.space.hard)
    ELSE [l EXCEPT !.ctx.spaces = spaces]

\* set_spaces whose splice does not truncate the list first.
set_spaces_NoTruncate(l, spaces, replace_empty) ==
    IF replace_empty /\ space_is_empty(l)
    THEN start_space([l EXCEPT !.ctx.spaces = spaces], 0, l.space.hard)
    ELSE [l EXCEPT !.ctx.spaces = l.ctx.spaces \o spaces]

set_spaces(l, spaces, replace_empty) ==
    IF replace_empty /\ space_is_empty(l)
    THEN start_space([l EXCEPT !.ctx.spaces = spaces], 0, l.space.hard)
    ELSE [l EXCEPT !.ctx.spaces =
              SubSeq(l.ctx.spaces, 1, l.space.index + 1) \o spaces]

\* remaining that lists the areas after the current index, unclamped.
remaining_AfterIndex(l) ==
    <<LayoutSpace(remaining_subspace(l)[2], ZeroBox)>> \o
    [i \in 1 .. (Len(l.ctx.spaces) - (l.space.index + 1)) |->
        usable_space(l.ctx.spaces[l.space.index + 1 + i])]

remaining(l) ==
    <<LayoutSpace(remaining_subspace(l)[2], ZeroBox)>> \o
    [i \in 1 .. (Len(l.ctx.spaces) - next_space(l)) |->
        usable_space(l.ctx.spaces[next_space(l) + i])]

primary_usable(l) == l.sub.usable.x

\* finish without its test: the current Space is always finalized.
finish_Always(l) == finish_space(l, FALSE)

\* finish consumes the layouter; its return value is finish(l).layouts.
finish(l) ==
    IF l.space.hard \/ ~space_is_empty(l)
    THEN finish_space(l, FALSE)
    ELSE l

----------------------------------------------------------------------------
(* The inputs of a run.                                                    *)

AreaA == LayoutSpace(Size2D(100, 100), ZeroBox)

AreaB == LayoutSpace(Size2D(50, 50), SizeBox(10, 10, 10, 10))

AreaBig == LayoutSpace(Size2D(200, 200), ZeroBox)

InitSpaces == {<<AreaA>>, <<AreaA, AreaA>>}

NewSpaces == {<<AreaB, AreaBig>>}

Down == LayoutAxes(AlignedAxis("LeftToRight", "Origin", FALSE),
                   AlignedAxis("TopToBottom", "Origin", FALSE))

Across == LayoutAxes(AlignedAxis("TopToBottom", "Origin", FALSE),
                     AlignedAxis("LeftToRight", "Center", FALSE))

Up == LayoutAxes(AlignedAxis("RightToLeft", "Center", FALSE),
                 AlignedAxis("BottomToTop", "End", FALSE))

Stretch == LayoutAxes(AlignedAxis("LeftToRight", "End", TRUE),
                      AlignedAxis("TopToBottom", "Origin", TRUE))

AxesSet == {Down, Across, Up, Stretch}

BoxSizes == {Size2D(30, 40), Size2D(50, 70), Size2D(0, 0), Size2D(20, 150)}

Amounts == {20, 80}

Contexts ==
    {[spaces |-> s, axes |-> a, expand |-> e] :
        s \in InitSpaces, a \in AxesSet, e \in BOOLEAN}

Call(name, arg) == [name |-> name, arg |-> arg]

----------------------------------------------------------------------------
(* The state machine: one action per public method.                        *)

Init ==
    \E ctx \in Contexts :
        /\ lay = StackLayouterNew(ctx)
        /\ prev = StackLayouterNew(ctx)
        /\ op = Call("new", ctx)
        /\ res = "None"
        /\ prevOp = Call("new", ctx)
        /\ prev2 = StackLayouterNew(ctx)
        /\ calls = 0
        /\ done = FALSE

\* What every call does to the history variables.
Step(l, call, r) ==
    /\ lay' = l
    /\ prev' = lay
    /\ op' = call
    /\ res' = r
    /\ prev2' = prev
    /\ prevOp' = op

Add ==
    /\ ~done /\ calls < MaxCalls
    /\ \E d \in BoxSizes :
        LET layout == [dimensions |-> d, id |-> calls + 1]
            r == add(lay, layout)
        IN  Step(r.lay, Call("add", layout), r.res)
    /\ calls' = calls + 1
    /\ UNCHANGED done

AddSpace ==
    /\ ~done /\ calls < MaxCalls
    /\ \E s \in Amounts, kind \in {"Hard", "Soft"} :
        Step(add_space(lay, s, kind),
             Call("add_space", [space |-> s, kind |-> kind]), "None")
    /\ calls' = calls + 1
    /\ UNCHANGED done

SetAxes ==
    /\ ~done /\ calls < MaxCalls
    /\ \E axes \in AxesSet :
        Step(set_axes(lay, axes), Call("set_axes", axes), "None")
    /\ calls' = calls + 1
    /\ UNCHANGED done

SetSpaces ==
    /\ ~done /\ calls < MaxCalls
    /\ \E spaces \in NewSpaces, replace_empty \in BOOLEAN :
        Step(set_spaces(lay, spaces, replace_empty),
             Call("set_spaces", [spaces |-> spaces, replace_empty |-> replace_empty]),
             "None")
    /\ calls' = calls + 1
    /\ UNCHANGED done

FinishSpace ==
    /\ ~done /\ calls < MaxCalls
    /\ \E hard \in BOOLEAN :
        Step(finish_space(lay, hard), Call("finish_space", hard), "None")
    /\ calls' = calls + 1
    /\ UNCHANGED done

Finish ==
    /\ ~done
    /\ Step(finish(lay), Call("finish", "self"), "None")
    /\ done' = TRUE
    /\ UNCHANGED calls

Next == Add \/ AddSpace \/ SetAxes \/ SetSpaces \/ FinishSpace \/ Finish

Spec == Init /\ [][Next]_vars

----------------------------------------------------------------------------
(* Helpers of the claims.                                                  *)

\* The layouts the last call appended to the output.
Appended == SubSeq(lay.layouts, Len(prev.layouts) + 1, Len(lay.layouts))

\* The boxes of a list of placement instructions, in order.
LayoutsOf(actions) == [i \in 1 .. Len(actions) |-> actions[i].layout]

\* The boxes a layouter has accepted into its current Space, in order.
BoxesOf(l) == LayoutsOf(l.space.actions) \o LayoutsOf(l.sub.boxes)

\* The layouter after add materialized pending soft spacing.
AfterSoft(l) ==
    IF l.sub.space.kind = "Soft"
    THEN add_space(l, l.sub.space.amount, "Hard")
    ELSE l

\* The generalized extent of the box of the last call (an add).
BoxSize == generalize(prev.ctx.axes, op.arg.dimensions)

\* Whether the box of the last call (an add) overflowed the Subspace it
\* was added to.
Overflowed ==
    LET l1 == AfterSoft(prev)
    IN  ~fits(l1.sub.usable,
              Size2D(max(l1.sub.dimensions.x, BoxSize.x),
                     l1.sub.dimensions.y + BoxSize.y))

----------------------------------------------------------------------------
(* C1: every emitted layout fits its Available Area: in compact mode the   *)
(* combined used extent of its Space is at most the usable extent of the   *)
(* area, component-wise (so the padded layout is at most the area); in     *)
(* fill mode the extent of the layout is the full extent of the area.      *)
C1_FitInvariant ==
    \A i \in 1 .. Len(lay.layouts) :
        LET L == lay.layouts[i]
        IN  IF lay.ctx.expand
            THEN L.dimensions = L.g_space.dimensions
            ELSE /\ fits(usable(L.g_space), L.g_combined)
                 /\ L.dimensions = padded(L.g_combined, L.g_space.padding)
                 /\ fits(L.g_space.dimensions, L.dimensions)

\* A compact layout with a box whose Space was filled to the end of its
\* area along the secondary axis.
C1_Witness ==
    /\ ~lay.ctx.expand
    /\ \E i \in 1 .. Len(lay.layouts) :
        /\ lay.layouts[i].actions # <<>>
        /\ lay.layouts[i].g_combined.y = usable(lay.layouts[i].g_space).y
        /\ lay.layouts[i].g_combined.x > 0

(* C2: add returns the overflow error only from an empty Space that is the *)
(* last Available Area and that the box does not fit, and it returns Ok    *)
(* whenever the box fits the full usable extent of the last area.          *)
C2_ErrorOnlyWithoutAlternative ==
    op.name = "add" =>
        LET last == prev.ctx.spaces[Len(prev.ctx.spaces)]
        IN  /\ res \in {"Ok", "Err"}
            /\ res = "Err" =>
                /\ space_is_last(lay) /\ space_is_empty(lay)
                /\ ~fits(lay.sub.usable, BoxSize)
                /\ lay.sub.usable = generalize(lay.ctx.axes, usable(last))
            /\ fits(generalize(prev.ctx.axes, usable(last)), BoxSize) => res = "Ok"

\* The box of secondary extent 150 is accepted once a large area follows.
C2_Witness ==
    /\ op.name = "add" /\ res = "Ok"
    /\ op.arg.dimensions.y = 150
    /\ prev.ctx.spaces = <<AreaA, AreaB, AreaBig>>
    /\ prev.space.index = 0
    /\ Appended # <<>>

(* C3 as claimed: an add whose box overflows the current Subspace, from a  *)
(* Space that is not (last and empty), finalizes that Space into a layout  *)
(* of exactly the boxes accepted before, and the box becomes the only      *)
(* content of the next Space, with used extent the extent of the box.      *)
C3_Original ==
    (/\ op.name = "add"
     /\ Overflowed
     /\ ~(space_is_last(prev) /\ space_is_empty(prev)))
    => /\ Len(Appended) = 1
       /\ LayoutsOf(Appended[1].actions) = BoxesOf(prev)
       /\ lay.space.actions = <<>>
       /\ LayoutsOf(lay.sub.boxes) = <<op.arg>>
       /\ lay.sub.dimensions = BoxSize

(* C3 amended: such an add finalizes the current Space into a layout of    *)
(* exactly the boxes accepted before; every further area the box does not  *)
(* fit is finalized as a layout without boxes; if add returns Ok the box   *)
(* is the only content of the Space current on return, with used extent    *)
(* the extent of the box; otherwise the box is placed nowhere.             *)
C3_OverflowAndRetry ==
    (/\ op.name = "add"
     /\ Overflowed
     /\ ~(space_is_last(prev) /\ space_is_empty(prev)))
    => /\ Len(Appended) >= 1
       /\ LayoutsOf(Appended[1].actions) = BoxesOf(prev)
       /\ \A i \in 2 .. Len(Appended) : Appended[i].actions = <<>>
       /\ lay.space.actions = <<>>
       /\ res = "Ok" => /\ LayoutsOf(lay.sub.boxes) = <<op.arg>>
                        /\ lay.sub.dimensions = BoxSize
       /\ res # "Ok" => /\ res = "Err"
                        /\ lay.sub.boxes = <<>>
                        /\ space_is_last(lay) /\ space_is_empty(lay)

\* The two 100x100 areas with the boxes 30x40 and then 50x70.
C3_Witness ==
    /\ op.name = "add" /\ res = "Ok"
    /\ prev.ctx.spaces = <<AreaA, AreaA>>
    /\ prev.ctx.axes = Down
    /\ op.arg.dimensions = Size2D(50, 70)
    /\ Len(Appended) = 1
    /\ LayoutsOf(Appended[1].actions) = <<[dimensions |-> Size2D(30, 40), id |-> 1]>>
    /\ LayoutsOf(lay.sub.boxes) = <<op.arg>>

(* C4: after an add that returned the overflow error, finish returns the   *)
(* layouts it would have returned had that add not been issued.            *)
C4_FailedAddLeavesOutput ==
    (op.name = "add" /\ res = "Err") => finish(lay).layouts = finish(prev).layouts

C6_Original ==
    (op.name = "finish" /\ prevOp.name = "new" /\ calls = 0)
    => /\ Len(lay.layouts) = 1
       /\ lay.layouts[1].g_combined = Zero2D

(* C6 amended: finish right after construction emits exactly one layout,   *)
(* without boxes; its combined used extent is the usable extent of the     *)
(* first area along every axis whose expansion flag is set and zero along  *)
(* the others, so zero when neither axis expands.                          *)
C6_EmptyFirstSpace ==
    (op.name = "finish" /\ prevOp.name = "new" /\ calls = 0)
    => LET ctx == prevOp.arg
           u == generalize(ctx.axes, usable(ctx.spaces[1]))
           want == Size2D(IF ctx.axes.primary.expand THEN u.x ELSE 0,
                          IF ctx.axes.secondary.expand THEN u.y ELSE 0)
       IN  /\ Len(lay.layouts) = 1
           /\ lay.layouts[1].actions = <<>>
           /\ lay.layouts[1].g_combined = specialize(ctx.axes, want)
           /\ (~ctx.axes.primary.expand /\ ~ctx.axes.secondary.expand)
                  => lay.layouts[1].g_combined = Zero2D

\* finish right after construction with axes that do not expand.
C6_Witness ==
    /\ op.name = "finish" /\ prevOp.name = "new" /\ calls = 0
    /\ ~prevOp.arg.axes.primary.expand /\ ~prevOp.arg.axes.secondary.expand
    /\ Len(lay.layouts) = 1
    /\ lay.layouts[1].g_combined = Zero2D

\* Whether b is at most a in each extent of each layout of the two outputs.
NoLarger(b, a) ==
    /\ Len(b) = Len(a)
    /\ \A i \in 1 .. Len(b) :
        /\ fits(a[i].dimensions, b[i].dimensions)
        /\ fits(a[i].g_combined, b[i].g_combined)

(* C7: soft spacing followed at once by finish never materializes: no      *)
(* layout of the output is larger than in the output finish returns from   *)
(* the state before the soft spacing.                                      *)
C7_TrailingSoftCollapses ==
    /\ (op.name = "add_space" /\ op.arg.kind = "Soft")
        => NoLarger(finish(lay).layouts, finish(prev).layouts)
    /\ (op.name = "finish" /\ prevOp.name = "add_space" /\ prevOp.arg.kind = "Soft")
        => NoLarger(lay.layouts, finish(prev2).layouts)

\* finish right after soft spacing that was pending.
C7_Witness ==
    /\ op.name = "finish"
    /\ prevOp.name = "add_space" /\ prevOp.arg.kind = "Soft"
    /\ prev.sub.space = Soft(prevOp.arg.space)
    /\ prev.sub.dimensions.y + prevOp.arg.space <= prev.sub.usable.y
    /\ Appended # <<>>

\* The last two calls were add_space(s, Soft), accepted, and an add that
\* returned Ok.
SoftThenAdd ==
    /\ op.name = "add" /\ res = "Ok"
    /\ prevOp.name = "add_space" /\ prevOp.arg.kind = "Soft"
    /\ prev2.sub.space # Forbidden

\* What C8 says the used secondary extent is after SoftThenAdd.
SoftThenAddExtent ==
    prev2.sub.dimensions.y
        + min(prevOp.arg.space, prev2.sub.usable.y - prev2.sub.dimensions.y)
        + BoxSize.y

(* C8 as claimed: accepted soft spacing s followed by a successful add of  *)
(* a box of secondary extent h raises the used secondary extent by         *)
(* min(s, remaining secondary capacity) + h.                               *)
C8_Original == SoftThenAdd => lay.sub.dimensions.y = SoftThenAddExtent

(* C8 amended: it does so when the add finalizes no Space, that is when    *)
(* the box fits the current Subspace after the spacing; when the add       *)
(* starts a new Space the used secondary extent is h.                      *)
C8_SoftThenBox ==
    SoftThenAdd =>
        IF Appended = <<>>
        THEN lay.sub.dimensions.y = SoftThenAddExtent
        ELSE lay.sub.dimensions.y = BoxSize.y

\* Soft spacing and a box of positive extent that fits after it.
C8_Witness ==
    /\ SoftThenAdd
    /\ Appended = <<>>
    /\ BoxSize.y > 0
    /\ lay.sub.dimensions.y = prev2.sub.dimensions.y + prevOp.arg.space + BoxSize.y

(* C9: hard spacing s raises the used secondary extent by min(s, usable -  *)
(* used); when s exceeds what remains the used extent becomes the usable   *)
(* extent, never more; the Spacing State is Forbidden afterwards.          *)
C9_HardSpacingClamp ==
    (op.name = "add_space" /\ op.arg.kind = "Hard")
    => LET s == op.arg.space
           left == prev.sub.usable.y - prev.sub.dimensions.y
       IN  /\ lay.sub.dimensions.y = prev.sub.dimensions.y + min(s, left)
           /\ s > left => lay.sub.dimensions.y = lay.sub.usable.y
           /\ lay.sub.dimensions.y <= lay.sub.usable.y
           /\ lay.sub.space = Forbidden
           /\ lay = [prev EXCEPT !.sub.dimensions.y = lay.sub.dimensions.y,
                                 !.sub.space = Forbidden]

\* Hard spacing larger than what is left of a partly used Subspace.
C9_Witness ==
    /\ op.name = "add_space" /\ op.arg.kind = "Hard"
    /\ prev.sub.dimensions.y > 0
    /\ op.arg.space > prev.sub.usable.y - prev.sub.dimensions.y
    /\ prev.sub.usable.y > prev.sub.dimensions.y
    /\ lay.sub.dimensions.y = lay.sub.usable.y

(* C10: soft spacing in state Forbidden changes nothing; in state Allowed  *)
(* or Soft(t) it sets the state to Soft(s), replacing t, and changes       *)
(* nothing else; an add that returns Ok leaves the state Allowed.          *)
C10_SpacingStateMachine ==
    /\ (op.name = "add_space" /\ op.arg.kind = "Soft")
        => IF prev.sub.space = Forbidden
           THEN lay = prev
           ELSE lay = [prev EXCEPT !.sub.space = Soft(op.arg.space)]
    /\ (op.name = "add" /\ res = "Ok") => lay.sub.space = Allowed

\* Soft spacing s on pending soft spacing t # s.
C10_Witness ==
    /\ op.name = "add_space" /\ op.arg.kind = "Soft"
    /\ prev.sub.space.kind = "Soft"
    /\ prev.sub.space.amount # op.arg.space
    /\ lay.sub.space = Soft(op.arg.space)

(* C11: a Space that add starts because a box overflowed is not hard.      *)
C11_OverflowSpaceNotHard ==
    (op.name = "add" /\ Appended # <<>>) => ~lay.space.hard

(* C12 as claimed: remaining() has 1 + (number of areas - 1 - current      *)
(* index) entries: the unused extent of the current Subspace and the       *)
(* usable extent of the areas after the current index.                     *)
C12_Original ==
    /\ Len(remaining(lay)) = 1 + (Len(lay.ctx.spaces) - 1 - lay.space.index)
    /\ space_is_last(lay) => Len(remaining(lay)) = 1

\* The areas of l from the 0-based index i on, as usable spaces.
UsableFrom(l, i) ==
    [k \in 1 .. (Len(l.ctx.spaces) - i) |-> usable_space(l.ctx.spaces[i + k])]

(* C12 amended: remaining() is the unused extent of the current Subspace   *)
(* (usable minus used minus pending soft spacing, specialized, without     *)
(* padding) followed by the usable extent of the areas after the current   *)
(* index, or of the last area again when the current Space is the last:    *)
(* it then has two entries.                                                *)
C12_Remaining ==
    LET r == remaining(lay)
        left == Size2D(lay.sub.usable.x,
                       lay.sub.usable.y - lay.sub.dimensions.y
                           - soft_or_zero(lay.sub.space))
    IN  /\ r[1] = LayoutSpace(specialize(lay.ctx.axes, left), ZeroBox)
        /\ Tail(r) = IF space_is_last(lay)
                     THEN <<usable_space(lay.ctx.spaces[Len(lay.ctx.spaces)])>>
                     ELSE UsableFrom(lay, lay.space.index + 1)
        /\ Len(r) = 1 + max(1, Len(lay.ctx.spaces) - 1 - lay.space.index)

\* A partly used last Space after an area before it was consumed.
C12_Witness ==
    /\ space_is_last(lay)
    /\ lay.space.index > 0
    /\ lay.sub.boxes # <<>>
    /\ Len(remaining(lay)) = 2

\* The last call was set_axes with an Axis Pair other than the current one.
AxesChanged == op.name = "set_axes" /\ op.arg # prev.ctx.axes

\* What is left of the secondary extent of the Subspace of l, generalized.
SecondaryLeft(l) ==
    l.sub.usable.y - l.sub.dimensions.y - soft_or_zero(l.sub.space)

(* C13 as claimed: an axis change emits no layout, keeps the Space index   *)
(* and leaves the first entry of remaining() as it was; between axis       *)
(* pairs that stack along the same physical axis the generalized           *)
(* remaining secondary extent is the same number.                          *)
C13_Original ==
    AxesChanged =>
        /\ lay.layouts = prev.layouts
        /\ lay.space.index = prev.space.index
        /\ remaining(lay)[1] = remaining(prev)[1]
        /\ is_horizontal(op.arg.primary.axis) = is_horizontal(prev.ctx.axes.primary.axis)
               => SecondaryLeft(lay) = SecondaryLeft(prev)

(* C13 amended: it does so when the secondary axis of the Axis Pair that   *)
(* is replaced does not need expansion; when it does, the Subspace is      *)
(* stretched to its usable extent first and what remains along the         *)
(* secondary axis afterwards is zero minus the pending soft spacing.       *)
C13_AxisChangeKeepsRemaining ==
    AxesChanged =>
        /\ lay.layouts = prev.layouts
        /\ lay.space.index = prev.space.index
        /\ lay.ctx.axes = op.arg
        /\ IF needs_expansion(prev.ctx.axes.secondary)
           THEN remaining(lay)[1].dimensions =
                    specialize(prev.ctx.axes,
                        Size2D(prev.sub.usable.x, 0 - soft_or_zero(prev.sub.space)))
           ELSE /\ remaining(lay)[1] = remaining(prev)[1]
                /\ is_horizontal(op.arg.primary.axis)
                       = is_horizontal(prev.ctx.axes.primary.axis)
                   => SecondaryLeft(lay) = SecondaryLeft(prev)

\* An axis change in a partly used Subspace with soft spacing pending.
C13_Witness ==
    /\ AxesChanged
    /\ ~needs_expansion(prev.ctx.axes.secondary)
    /\ prev.sub.boxes # <<>>
    /\ prev.sub.dimensions.y > 0
    /\ prev.sub.space.kind = "Soft"
    /\ remaining(lay)[1] = remaining(prev)[1]

(* C14: set_spaces(new, replace_empty) on an empty Space with              *)
(* replace_empty makes the area list new and restarts at index 0 with a    *)
(* fresh Subspace and the hard flag of the current Space; otherwise the    *)
(* list becomes old[0..=index] followed by new and nothing else changes.   *)
C14_SetSpaces ==
    op.name = "set_spaces" =>
        LET new == op.arg.spaces
        IN  IF op.arg.replace_empty /\ space_is_empty(prev)
            THEN /\ lay.ctx = [prev.ctx EXCEPT !.spaces = new]
                 /\ lay.space = SpaceNew(0, prev.space.hard)
                 /\ lay.sub = SubspaceNew(start(new[1]), usable(new[1]), prev.ctx.axes)
                 /\ lay.layouts = prev.layouts
            ELSE /\ lay.ctx.spaces =
                        SubSeq(prev.ctx.spaces, 1, prev.space.index + 1) \o new
                 /\ lay = [prev EXCEPT !.ctx.spaces = lay.ctx.spaces]

\* A splice that discards an area queued after the current one.
C14_Witness ==
    /\ op.name = "set_spaces"
    /\ ~(op.arg.replace_empty /\ space_is_empty(prev))
    /\ Len(prev.ctx.spaces) > prev.space.index + 1
    /\ lay.sub.boxes # <<>>
    /\ Len(lay.ctx.spaces) = prev.space.index + 1 + Len(op.arg.spaces)

(* C15 as claimed: one add finalizes at most one Space before it accepts   *)
(* the box or reports the overflow error.                                  *)
C15_Original ==
    op.name = "add" => /\ Len(Appended) <= 1
                       /\ res \in {"Ok", "Err"}

\* The number of areas after the Space that was current before the call.
AreasAfter == Len(prev.ctx.spaces) - 1 - prev.space.index

(* C15 amended: one add retries in every further area in turn: it          *)
(* finalizes the current Space and every following area the box does not   *)
(* fit but the last, at most max(1, number of areas after the current      *)
(* index) Spaces, and then accepts the box or reports the error, once.     *)
C15_RetryEveryArea ==
    op.name = "add" =>
        /\ res \in {"Ok", "Err"}
        /\ Len(Appended) <= max(1, AreasAfter)
        /\ Len(Appended) = add(prev, op.arg).iters
        /\ lay.space.index = min(prev.space.index + Len(Appended),
                                 Len(prev.ctx.spaces) - 1)
        /\ \A i \in 2 .. Len(Appended) : ~fits(usable(Appended[i].g_space), op.arg.dimensions)

\* One add that finalized two Spaces and then accepted the box.
C15_Witness ==
    /\ op.name = "add" /\ res = "Ok"
    /\ Len(Appended) = 2
    /\ Appended[1].actions # <<>>
    /\ Appended[2].actions = <<>>

(* C16: after every call the used extent of the current Subspace is at     *)
(* most its usable extent in both components.                              *)
C16_SubspaceFits == fits(lay.sub.usable, lay.sub.dimensions)

\* The boxes of the layouts of an output, layout by layout, in order.
RECURSIVE OutputBoxes(_)
OutputBoxes(layouts) ==
    IF layouts = <<>> THEN <<>>
    ELSE LayoutsOf(Head(layouts).actions) \o OutputBoxes(Tail(layouts))

\* Every box a layouter holds: emitted, placed in the Space or queued.
AllBoxes(l) == OutputBoxes(l.layouts) \o BoxesOf(l)

(* C17: every box whose add returned Ok is kept, once and in order, and    *)
(* no other: each call leaves the boxes the layouter holds as they were,   *)
(* but for the box of a successful add at the end, and finish returns all  *)
(* of them in its output.                                                  *)
C17_BoxConservation ==
    /\ AllBoxes(lay) =
           AllBoxes(prev) \o (IF op.name = "add" /\ res = "Ok" THEN <<op.arg>> ELSE <<>>)
    /\ op.name = "finish" => OutputBoxes(lay.layouts) = AllBoxes(prev)

(* C18: the loop of add terminates: one add finalizes at most (number of   *)
(* areas after the current index) + 1 Spaces and then accepts the box or   *)
(* returns the error; every Space finish_space starts is empty.            *)
C18_AddTerminates ==
    /\ op.name = "add" =>
        /\ res # "Diverged"
        /\ Len(Appended) <= AreasAfter + 1
        /\ Appended # <<>> => (res = "Ok" \/ space_is_empty(lay))
    /\ op.name = "finish_space" => space_is_empty(lay)

\* An add that finalized the last Space and failed in the one started
\* again on the clamped last area.
C18_Witness ==
    /\ op.name = "add" /\ res = "Err"
    /\ space_is_last(prev)
    /\ Len(Appended) = 1
    /\ lay.space.index = prev.space.index

(* C19: the index of the current Space is a valid index of the area list;  *)
(* advancing past the last area clamps to the last index and a splice      *)
(* keeps the index and the areas up to the current one.                    *)
C19_SpaceIndexValid ==
    /\ lay.space.index \in 0 .. (Len(lay.ctx.spaces) - 1)
    /\ op.name = "finish_space" =>
           lay.space.index = min(prev.space.index + 1, Len(prev.ctx.spaces) - 1)
    /\ (op.name = "set_spaces" /\ ~(op.arg.replace_empty /\ space_is_empty(prev))) =>
           /\ Len(lay.ctx.spaces) >= prev.space.index + 1
           /\ lay.space.index = prev.space.index
           /\ SubSeq(lay.ctx.spaces, 1, prev.space.index + 1)
                  = SubSeq(prev.ctx.spaces, 1, prev.space.index + 1)

\* A splice made in the third area of a list, after two were consumed.
C19_Witness ==
    /\ op.name = "set_spaces"
    /\ ~(op.arg.replace_empty /\ space_is_empty(prev))
    /\ prev.space.index = 2
    /\ lay.space.index = 2

\* The last call started a new Subspace.
NewSubspace ==
    \/ op.name \in {"new", "finish_space"}
    \/ op.name = "add" /\ Appended # <<>> /\ res # "Ok"
    \/ AxesChanged
    \/ op.name = "set_spaces" /\ op.arg.replace_empty /\ space_is_empty(prev)

(* C20: soft spacing is pending only directly after content: the state is  *)
(* Soft only in a Subspace that holds a box, set by soft spacing on a      *)
(* state that was not Forbidden and kept only by calls that change no      *)
(* Subspace; every new Subspace and every hard spacing leaves Forbidden.   *)
C20_SoftOnlyAfterContent ==
    /\ lay.sub.space.kind \in {"Soft", "Allowed"} => lay.sub.boxes # <<>>
    /\ lay.sub.space.kind = "Soft" =>
        \/ /\ op.name = "add_space" /\ op.arg.kind = "Soft"
           /\ prev.sub.space # Forbidden
           /\ lay.sub.space.amount = op.arg.space
        \/ /\ op.name \in {"set_spaces", "set_axes", "finish"}
           /\ lay.sub = prev.sub
    /\ NewSubspace => (lay.sub.space = Forbidden /\ lay.sub.boxes = <<>>)
    /\ (op.name = "add_space" /\ op.arg.kind = "Hard") => lay.sub.space = Forbidden
    /\ (op.name = "add_space" /\ op.arg.kind = "Soft" /\ prev.sub.space = Forbidden)
           => lay.sub.space = Forbidden

\* Soft spacing dropped at the start of the Subspace of a Space started
\* after a Space with content.
C20_Witness ==
    /\ op.name = "add_space" /\ op.arg.kind = "Soft"
    /\ prevOp.name = "finish_space"
    /\ prev2.sub.space = Allowed
    /\ prev.sub.space = Forbidden
    /\ lay.sub.space = Forbidden

====
